---- MODULE Spec2Model ----
(***************************************************************************)
(* Rate provider of the currency API: RatesRepositoryImpl.GetRates, the    *)
(* provider fetch it wraps, and the gobreaker circuit breaker that         *)
(* NewRatesRepositoryImpl configures (MaxRequests 3, Interval 60s,         *)
(* Timeout 30s, ReadyToTrip on 3 consecutive failures).                    *)
(*                                                                         *)
(* Concurrent requests are goroutines; the breaker serialises its own      *)
(* bookkeeping under a mutex, so one call is three atomic steps:           *)
(*   Execute/beforeRequest  (admission),                                   *)
(*   fetch + afterRequest   (outcome),                                     *)
(*   circuitBreaker.State() (read for the log line before returning).      *)
(* Time is a clock in seconds that advances by TickStep.                   *)
(***************************************************************************)
EXTENDS Integers, Sequences, FiniteSets, Bags, TLC

VARIABLES apiKey, cb, now, inflight, pendingLog, last,
          changedAt, outcomes, dropped, unreturnedRun, rq, xq

vars == <<apiKey, cb, now, inflight, pendingLog, last,
          changedAt, outcomes, dropped, unreturnedRun, rq, xq>>

(***************************************************************************)
(* Bounds of the model.                                                    *)
(***************************************************************************)
TickStep == 15
MaxTime == 76
MaxInFlight == 4
MaxRequestsPerGen == 5
MaxQueryLen == 3

(***************************************************************************)
(* gobreaker.Settings of NewRatesRepositoryImpl.                           *)
(***************************************************************************)
MaxRequests == 3
Interval == 60
Timeout == 30
TripThreshold == 3

StateClosed == "closed"
StateHalfOpen == "half-open"
StateOpen == "open"

States == {StateClosed, StateHalfOpen, StateOpen}

\* time.Time{}: the zero time, before every clock value
ZeroTime == 0

\* variant: trips on the failures of the interval, consecutive or not
ReadyToTrip_OnTotalFailures(counts) == counts.TotalFailures >= TripThreshold

ReadyToTrip(counts) == counts.ConsecutiveFailures >= TripThreshold

(***************************************************************************)
(* gobreaker.Counts                                                        *)
(***************************************************************************)
ClearCounts ==
    [Requests |-> 0, TotalSuccesses |-> 0, TotalFailures |-> 0,
     ConsecutiveSuccesses |-> 0, ConsecutiveFailures |-> 0]

CountsOnRequest(c) == [c EXCEPT !.Requests = @ + 1]

\* variant: a success leaves the consecutive-failure counter alone
CountsOnSuccess_KeepsFailures(c) ==
    [c EXCEPT !.TotalSuccesses = @ + 1,
              !.ConsecutiveSuccesses = @ + 1]

CountsOnSuccess(c) ==
    [c EXCEPT !.TotalSuccesses = @ + 1,
              !.ConsecutiveSuccesses = @ + 1,
              !.ConsecutiveFailures = 0]

CountsOnFailure(c) ==
    [c EXCEPT !.TotalFailures = @ + 1,
              !.ConsecutiveFailures = @ + 1,
              !.ConsecutiveSuccesses = 0]

(***************************************************************************)
(* gobreaker.CircuitBreaker: state, generation, counts, expiry.            *)
(***************************************************************************)
\* variant: the two timers are swapped
toNewGeneration_SwappedTimers(b, t) ==
    [b EXCEPT !.generation = @ + 1,
              !.counts = ClearCounts,
              !.expiry = CASE b.state = StateClosed -> t + Timeout
                           [] b.state = StateOpen -> t + Interval
                           [] OTHER -> ZeroTime]

toNewGeneration(b, t) ==
    [b EXCEPT !.generation = @ + 1,
              !.counts = ClearCounts,
              !.expiry = CASE b.state = StateClosed -> t + Interval
                           [] b.state = StateOpen -> t + Timeout
                           [] OTHER -> ZeroTime]

\* Settings.Name and Settings.OnStateChange: the state-change event logged
Name == "openexchange-api"

\* variant: the two state names are logged the wrong way round
OnStateChange_Swapped(name, from, to) == [service |-> name, from |-> to, to |-> from]

OnStateChange(name, from, to) == [service |-> name, from |-> from, to |-> to]

\* emitted is the sequence of events the OnStateChange callback has logged
setState(b, s, t) ==
    IF b.state = s THEN b
    ELSE LET b1 == toNewGeneration([b EXCEPT !.state = s], t)
         IN  [b1 EXCEPT !.emitted = Append(@, OnStateChange(Name, b.state, s))]

\* variant: the deadline itself already counts as passed
Expired_NonStrict(b, t) == b.expiry <= t

\* expiry.Before(now) is strict
Expired(b, t) == b.expiry < t

\* variant: the Closed counting interval is never rolled over
currentState_NoInterval(b, t) ==
    CASE b.state = StateOpen ->
            IF Expired(b, t) THEN setState(b, StateHalfOpen, t) ELSE b
      [] OTHER -> b

currentState(b, t) ==
    CASE b.state = StateClosed ->
            IF b.expiry # ZeroTime /\ Expired(b, t) THEN toNewGeneration(b, t) ELSE b
      [] b.state = StateOpen ->
            IF Expired(b, t) THEN setState(b, StateHalfOpen, t) ELSE b
      [] OTHER -> b

\* variant: Half-Open closes on one success more than the trial quota
onSuccess_NeedsMoreThanQuota(b, t) ==
    CASE b.state = StateClosed -> [b EXCEPT !.counts = CountsOnSuccess(@)]
      [] b.state = StateHalfOpen ->
            LET c == CountsOnSuccess(b.counts)
                b1 == [b EXCEPT !.counts = c]
            IN  IF c.ConsecutiveSuccesses > MaxRequests
                THEN setState(b1, StateClosed, t) ELSE b1
      [] OTHER -> b

onSuccess(b, t) ==
    CASE b.state = StateClosed -> [b EXCEPT !.counts = CountsOnSuccess(@)]
      [] b.state = StateHalfOpen ->
            LET c == CountsOnSuccess(b.counts)
                b1 == [b EXCEPT !.counts = c]
            IN  IF c.ConsecutiveSuccesses >= MaxRequests
                THEN setState(b1, StateClosed, t) ELSE b1
      [] OTHER -> b

\* variant: a Half-Open failure is counted like a Closed one
onFailure_CountsInHalfOpen(b, t) ==
    IF b.state \in {StateClosed, StateHalfOpen}
    THEN LET c == CountsOnFailure(b.counts)
             b1 == [b EXCEPT !.counts = c]
         IN  IF ReadyToTrip(c) THEN setState(b1, StateOpen, t) ELSE b1
    ELSE b

onFailure(b, t) ==
    CASE b.state = StateClosed ->
            LET c == CountsOnFailure(b.counts)
                b1 == [b EXCEPT !.counts = c]
            IN  IF ReadyToTrip(c) THEN setState(b1, StateOpen, t) ELSE b1
      [] b.state = StateHalfOpen -> setState(b, StateOpen, t)
      [] OTHER -> b

\* beforeRequest: the breaker after the call and the error it returns
ErrNone == "nil"
ErrOpenState == "circuit breaker is open"
ErrTooManyRequests == "too many requests"

\* variant: a call beyond the Half-Open quota re-opens the breaker
beforeRequest_TripsOnOverflow(b, t) ==
    LET b1 == currentState(b, t)
    IN  IF b1.state = StateOpen
        THEN [cb |-> b1, generation |-> b1.generation, err |-> ErrOpenState]
        ELSE IF b1.state = StateHalfOpen /\ b1.counts.Requests >= MaxRequests
        THEN [cb |-> setState(b1, StateOpen, t), generation |-> b1.generation,
              err |-> ErrTooManyRequests]
        ELSE [cb |-> [b1 EXCEPT !.counts = CountsOnRequest(@)],
              generation |-> b1.generation, err |-> ErrNone]

\* variant: the Half-Open quota lets one call too many through
beforeRequest_QuotaOffByOne(b, t) ==
    LET b1 == currentState(b, t)
    IN  IF b1.state = StateOpen
        THEN [cb |-> b1, generation |-> b1.generation, err |-> ErrOpenState]
        ELSE IF b1.state = StateHalfOpen /\ b1.counts.Requests > MaxRequests
        THEN [cb |-> b1, generation |-> b1.generation, err |-> ErrTooManyRequests]
        ELSE [cb |-> [b1 EXCEPT !.counts = CountsOnRequest(@)],
              generation |-> b1.generation, err |-> ErrNone]

\* variant: a call refused while Open restarts the cool-down
beforeRequest_RestartsCoolDown(b, t) ==
    LET b1 == currentState(b, t)
    IN  IF b1.state = StateOpen
        THEN [cb |-> [b1 EXCEPT !.expiry = t + Timeout],
              generation |-> b1.generation, err |-> ErrOpenState]
        ELSE IF b1.state = StateHalfOpen /\ b1.counts.Requests >= MaxRequests
        THEN [cb |-> b1, generation |-> b1.generation, err |-> ErrTooManyRequests]
        ELSE [cb |-> [b1 EXCEPT !.counts = CountsOnRequest(@)],
              generation |-> b1.generation, err |-> ErrNone]

beforeRequest(b, t) ==
    LET b1 == currentState(b, t)
    IN  IF b1.state = StateOpen
        THEN [cb |-> b1, generation |-> b1.generation, err |-> ErrOpenState]
        ELSE IF b1.state = StateHalfOpen /\ b1.counts.Requests >= MaxRequests
        THEN [cb |-> b1, generation |-> b1.generation, err |-> ErrTooManyRequests]
        ELSE [cb |-> [b1 EXCEPT !.counts = CountsOnRequest(@)],
              generation |-> b1.generation, err |-> ErrNone]

\* variant: outcomes of calls admitted in an earlier generation are counted
afterRequest_IgnoresGeneration(b, before, success, t) ==
    LET b1 == currentState(b, t)
    IN  IF success THEN onSuccess(b1, t) ELSE onFailure(b1, t)

afterRequest(b, before, success, t) ==
    LET b1 == currentState(b, t)
    IN  IF b1.generation # before THEN b1
        ELSE IF success THEN onSuccess(b1, t) ELSE onFailure(b1, t)

NewCircuitBreaker(t) ==
    toNewGeneration([state |-> StateClosed, generation |-> 0,
                     counts |-> ClearCounts, expiry |-> ZeroTime,
                     emitted |-> <<>>], t)

(***************************************************************************)
(* The provider fetch.  Rates are in hundredths (1.0 is 100).              *)
(***************************************************************************)
One == 100

\* the request lists the model draws GetRates inputs from
CurrencyLists == { <<"USD", "EUR">>, <<"EUR", "XXX">> }

\* what the provider answers: a transport error, a non-200 status, an
\* undecodable body, or a rates object (which omits the base USD)
ProviderRates == [c \in {"EUR", "GBP"} |-> IF c = "EUR" THEN 85 ELSE 73]

Responses == {"network", "status", "decode", "ok"}

SeqToSet(s) == { s[i] : i \in 1..Len(s) }

\* index of the first requested non-USD currency missing from the rates, or 0
FirstMissing(currencies, rates) ==
    LET miss == { i \in 1..Len(currencies) :
                    currencies[i] # "USD" /\ currencies[i] \notin DOMAIN rates }
    IN  IF miss = {} THEN 0 ELSE CHOOSE i \in miss : \A j \in miss : i <= j

NoRates == [c \in {} |-> 0]

\* variant: a requested currency missing from the response is left out
fetchRatesFromAPI_PartialResult(currencies, resp) ==
    CASE resp = "network" -> [rates |-> NoRates, err |-> "failed to make request", arg |-> ""]
      [] resp = "status" -> [rates |-> NoRates, err |-> "API returned status", arg |-> ""]
      [] resp = "decode" -> [rates |-> NoRates, err |-> "failed to decode response", arg |-> ""]
      [] OTHER ->
            [rates |-> [c \in SeqToSet(currencies) \cap (DOMAIN ProviderRates \cup {"USD"}) |->
                            IF c = "USD" THEN One ELSE ProviderRates[c]],
             err |-> ErrNone, arg |-> ""]

fetchRatesFromAPI(currencies, resp) ==
    CASE resp = "network" -> [rates |-> NoRates, err |-> "failed to make request", arg |-> ""]
      [] resp = "status" -> [rates |-> NoRates, err |-> "API returned status", arg |-> ""]
      [] resp = "decode" -> [rates |-> NoRates, err |-> "failed to decode response", arg |-> ""]
      [] OTHER ->
            LET m == FirstMissing(currencies, ProviderRates)
            IN  IF m # 0
                THEN [rates |-> NoRates,
                      err |-> "not supported by the exchange rates provider",
                      arg |-> currencies[m]]
                ELSE [rates |-> [c \in SeqToSet(currencies) |->
                                    IF c = "USD" THEN One ELSE ProviderRates[c]],
                      err |-> ErrNone, arg |-> ""]

MockRates ==
    [c \in {"USD", "EUR", "GBP", "JPY", "CAD", "AUD", "CHF", "CNY", "SEK", "NOK"} |->
        CASE c = "USD" -> 100 [] c = "EUR" -> 85 [] c = "GBP" -> 73
          [] c = "JPY" -> 11000 [] c = "CAD" -> 125 [] c = "AUD" -> 135
          [] c = "CHF" -> 92 [] c = "CNY" -> 720 [] c = "SEK" -> 1050
          [] OTHER -> 1120]

\* variant: a currency missing from the table is returned with rate 0
getMockRates_ZeroForUnknown(currencies) ==
    [c \in SeqToSet(currencies) |-> IF c \in DOMAIN MockRates THEN MockRates[c] ELSE 0]

\* getMockRates, lines 648-671
getMockRates(currencies) ==
    [c \in SeqToSet(currencies) \cap DOMAIN MockRates |-> MockRates[c]]

(***************************************************************************)
(* What GetRates returns.                                                  *)
(***************************************************************************)
InfoMock == "No API key: Using mock rates"
InfoLive == "API key provided: Using live rates"
MsgUnavailable == "external rates API is currently unavailable (service protection active)"
MsgRateLimited == "external rates API is being rate limited (too many requests)"
MsgFailed == "failed to fetch live exchange rates"

\* variant: a failed request (cancelled, timed out, refused) is not a failure
isSuccessful_IgnoresRequestErrors(err) == err \in {ErrNone, "failed to make request"}

\* variant: a currency the provider does not return is not a failure
isSuccessful_IgnoresUnsupported(err) ==
    err \in {ErrNone, "not supported by the exchange rates provider"}

\* Settings.IsSuccessful is not set: the breaker counts a call as a
\* success exactly when the fetch returned no error
isSuccessful(err) == err = ErrNone

\* variant: every error of Execute is wrapped as a failed fetch
GetRatesError_AllWrapped(err, arg) == [err |-> MsgFailed, cause |-> err, arg |-> arg]

\* the error GetRates returns for the error of Execute, lines 570-585
GetRatesError(err, arg) ==
    IF err = ErrOpenState THEN [err |-> MsgUnavailable, cause |-> "", arg |-> ""]
    ELSE IF err = ErrTooManyRequests THEN [err |-> MsgRateLimited, cause |-> "", arg |-> ""]
    ELSE [err |-> MsgFailed, cause |-> err, arg |-> arg]

Return(op, rates, info, err, cause, arg) ==
    [op |-> op, rates |-> rates, info |-> info, err |-> err, cause |-> cause, arg |-> arg]

\* what GetRates returns for an admitted call once the fetch has ended
LiveReturn(currencies, resp) ==
    LET f == fetchRatesFromAPI(currencies, resp)
    IN  IF f.err = ErrNone
        THEN Return("Fetch", f.rates, InfoLive, ErrNone, "", "")
        ELSE LET e == GetRatesError(f.err, f.arg)
             IN  Return("Fetch", NoRates, "", e.err, e.cause, e.arg)

(***************************************************************************)
(* GetRatesQueryHandler.  A currency code of a query is the sequence of    *)
(* its characters, so that trimming and upper-casing are computed; the     *)
(* trimmed, upper-cased code is then the string the repository sees.       *)
(***************************************************************************)
LowerCase == <<"a", "b", "c", "d", "e", "f", "g", "h", "i", "j", "k", "l", "m",
               "n", "o", "p", "q", "r", "s", "t", "u", "v", "w", "x", "y", "z">>
UpperCase == <<"A", "B", "C", "D", "E", "F", "G", "H", "I", "J", "K", "L", "M",
               "N", "O", "P", "Q", "R", "S", "T", "U", "V", "W", "X", "Y", "Z">>

IsSpace(ch) == ch \in {" ", "\t", "\n", "\r", "\f"}

ToUpperChar(ch) ==
    IF \E i \in 1..Len(LowerCase) : LowerCase[i] = ch
    THEN UpperCase[CHOOSE i \in 1..Len(LowerCase) : LowerCase[i] = ch]
    ELSE ch

ToUpper(w) == [i \in 1..Len(w) |-> ToUpperChar(w[i])]

TrimSpace(w) ==
    LET keep == { i \in 1..Len(w) : ~IsSpace(w[i]) }
    IN  IF keep = {} THEN <<>>
        ELSE LET lo == CHOOSE i \in keep : \A j \in keep : i <= j
                 hi == CHOOSE i \in keep : \A j \in keep : j <= i
             IN  SubSeq(w, lo, hi)

\* the strings that the character sequences of the model spell
Spelling ==
    [c \in {"USD", "EUR", "GBP", "JPY", "XXX", "BEER", "FLOKI", "GATE", "USDT",
            "WBTC", "MATIC", ""} |->
        CASE c = "USD" -> <<"U", "S", "D">>
          [] c = "EUR" -> <<"E", "U", "R">>
          [] c = "GBP" -> <<"G", "B", "P">>
          [] c = "JPY" -> <<"J", "P", "Y">>
          [] c = "XXX" -> <<"X", "X", "X">>
          [] c = "BEER" -> <<"B", "E", "E", "R">>
          [] c = "FLOKI" -> <<"F", "L", "O", "K", "I">>
          [] c = "GATE" -> <<"G", "A", "T", "E">>
          [] c = "USDT" -> <<"U", "S", "D", "T">>
          [] c = "WBTC" -> <<"W", "B", "T", "C">>
          [] c = "MATIC" -> <<"M", "A", "T", "I", "C">>
          [] OTHER -> <<>>]

\* the string a character sequence spells; a sequence outside the table
\* stands for itself
AsString(w) ==
    IF \E c \in DOMAIN Spelling : Spelling[c] = w
    THEN CHOOSE c \in DOMAIN Spelling : Spelling[c] = w
    ELSE w

\* currencies[i] = strings.ToUpper(strings.TrimSpace(currency)), lines 30-33
Normalize(query) == [i \in 1..Len(query) |-> AsString(ToUpper(TrimSpace(query[i])))]

(***************************************************************************)
(* decimal.Decimal.Div: the quotient to DivisionPrecision decimal places,  *)
(* truncated and then moved one unit away from zero when twice the         *)
(* remainder reaches the divisor.  A quotient is [neg, int, frac] with     *)
(* frac its decimal digits.  decimal.NewFromFloat of a rate is exact, so   *)
(* the rates, kept in hundredths, divide as integers.                      *)
(***************************************************************************)
DivisionPrecision == 16

Abs(x) == IF x < 0 THEN 0 - x ELSE x

RECURSIVE FracDigits(_, _, _)
\* the next n digits of r / b, followed by the remainder left after them
FracDigits(r, b, n) ==
    IF n = 0 THEN <<r>>
    ELSE <<(10 * r) \div b>> \o FracDigits((10 * r) % b, b, n - 1)

RECURSIVE AddUlp(_, _)
\* one unit added to the last of the digits: <<carry out, digits>>
AddUlp(digits, k) ==
    IF k = 0 THEN <<1, digits>>
    ELSE IF digits[k] < 9 THEN <<0, [digits EXCEPT ![k] = @ + 1]>>
    ELSE AddUlp([digits EXCEPT ![k] = 0], k - 1)

\* variant: the quotient is cut off after DivisionPrecision places
Div_Truncates(a, b) ==
    LET x == Abs(a)
        y == Abs(b)
        ds == FracDigits(x % y, y, DivisionPrecision)
    IN  [neg |-> (a < 0) # (b < 0) /\ a # 0,
         int |-> x \div y,
         frac |-> SubSeq(ds, 1, DivisionPrecision)]

Div(a, b) ==
    LET x == Abs(a)
        y == Abs(b)
        ds == FracDigits(x % y, y, DivisionPrecision)
        frac == SubSeq(ds, 1, DivisionPrecision)
        rem == ds[DivisionPrecision + 1]
        up == IF 2 * rem >= y THEN AddUlp(frac, DivisionPrecision) ELSE <<0, frac>>
    IN  [neg |-> (a < 0) # (b < 0) /\ a # 0,
         int |-> (x \div y) + up[1],
         frac |-> up[2]]

DecimalZero == [neg |-> FALSE, int |-> 0, frac |-> <<>>]

\* calculateRate, lines 68-90
calculateRate(rates, from, to) ==
    IF from \notin DOMAIN rates
    THEN [rate |-> DecimalZero, err |-> "rate not available for currency", arg |-> <<from>>]
    ELSE IF to \notin DOMAIN rates
    THEN [rate |-> DecimalZero, err |-> "rate not available for currency", arg |-> <<to>>]
    ELSE IF rates[from] = 0 \/ rates[to] = 0
    THEN [rate |-> DecimalZero, err |-> "invalid rate",
          arg |-> <<from, rates[from], to, rates[to]>>]
    ELSE [rate |-> Div(rates[to], rates[from]), err |-> ErrNone, arg |-> <<>>]

MsgTooFew == "at least two currencies are required"
MsgGetRates == "failed to get rates"
MsgNotAvailable == "is not supported or not available"
MsgCalculate == "failed to calculate rate"

HandleResult(rates, info, err, cause, arg, called) ==
    [rates |-> rates, info |-> info, err |-> err, cause |-> cause, arg |-> arg,
     called |-> called]

RECURSIVE AllPairs_InnerFirst(_, _, _, _)
\* variant: the loop over to is the outer one
AllPairs_InnerFirst(currencies, rates, k, acc) ==
    LET n == Len(currencies)
        j == ((k - 1) \div n) + 1
        i == ((k - 1) % n) + 1
    IN  IF k > n * n THEN [rates |-> acc, err |-> ErrNone, arg |-> <<>>, at |-> <<>>]
        ELSE IF currencies[i] = currencies[j]
        THEN AllPairs_InnerFirst(currencies, rates, k + 1, acc)
        ELSE LET c == calculateRate(rates, currencies[i], currencies[j])
             IN  IF c.err # ErrNone
                 THEN [rates |-> <<>>, err |-> c.err, arg |-> c.arg,
                       at |-> <<currencies[i], currencies[j]>>]
                 ELSE AllPairs_InnerFirst(currencies, rates, k + 1,
                               Append(acc, [from |-> currencies[i],
                                            to |-> currencies[j], rate |-> c.rate]))

RECURSIVE AllPairs(_, _, _, _)
\* the two nested loops of lines 48-63 from the pair (i, j) on: the rates
\* appended so far, or the first calculateRate error
AllPairs(currencies, rates, k, acc) ==
    LET n == Len(currencies)
        i == ((k - 1) \div n) + 1
        j == ((k - 1) % n) + 1
    IN  IF k > n * n THEN [rates |-> acc, err |-> ErrNone, arg |-> <<>>, at |-> <<>>]
        ELSE IF currencies[i] = currencies[j]
        THEN AllPairs(currencies, rates, k + 1, acc)
        ELSE LET c == calculateRate(rates, currencies[i], currencies[j])
             IN  IF c.err # ErrNone
                 THEN [rates |-> <<>>, err |-> c.err, arg |-> c.arg,
                       at |-> <<currencies[i], currencies[j]>>]
                 ELSE AllPairs(currencies, rates, k + 1,
                               Append(acc, [from |-> currencies[i],
                                            to |-> currencies[j], rate |-> c.rate]))

\* variant: a single currency is enough
Handle_AtLeastOne(query, ret) ==
    IF Len(query) < 1
    THEN HandleResult(<<>>, "", MsgTooFew, "", <<>>, FALSE)
    ELSE LET currencies == Normalize(query)
             missing == { i \in 1..Len(currencies) : currencies[i] \notin DOMAIN ret.rates }
         IN  IF ret.err # ErrNone
             THEN HandleResult(<<>>, "", MsgGetRates, ret.err, <<>>, TRUE)
             ELSE IF missing # {}
             THEN HandleResult(<<>>, "", MsgNotAvailable, "",
                      <<currencies[CHOOSE i \in missing : \A j \in missing : i <= j]>>, TRUE)
             ELSE LET p == AllPairs(currencies, ret.rates, 1, <<>>)
                  IN  IF p.err # ErrNone
                      THEN HandleResult(<<>>, "", MsgCalculate, p.err, p.at \o p.arg, TRUE)
                      ELSE HandleResult(p.rates, ret.info, ErrNone, "", <<>>, TRUE)

\* variant: the result of the repository is not checked for completeness,
\* the pairs that can be calculated are returned
Handle_NoCompletenessCheck(query, ret) ==
    IF Len(query) < 2
    THEN HandleResult(<<>>, "", MsgTooFew, "", <<>>, FALSE)
    ELSE LET currencies == Normalize(query)
             present == SelectSeq(currencies, LAMBDA c : c \in DOMAIN ret.rates)
         IN  IF ret.err # ErrNone
             THEN HandleResult(<<>>, "", MsgGetRates, ret.err, <<>>, TRUE)
             ELSE LET p == AllPairs(present, ret.rates, 1, <<>>)
                  IN  IF p.err # ErrNone
                      THEN HandleResult(<<>>, "", MsgCalculate, p.err, p.at \o p.arg, TRUE)
                      ELSE HandleResult(p.rates, ret.info, ErrNone, "", <<>>, TRUE)

\* GetRatesQueryHandler.Handle, lines 25-66; ret is what ratesRepo.GetRates
\* returns for the normalised currencies, called tells whether it was asked
Handle(query, ret) ==
    IF Len(query) < 2
    THEN HandleResult(<<>>, "", MsgTooFew, "", <<>>, FALSE)
    ELSE LET currencies == Normalize(query)
             missing == { i \in 1..Len(currencies) : currencies[i] \notin DOMAIN ret.rates }
         IN  IF ret.err # ErrNone
             THEN HandleResult(<<>>, "", MsgGetRates, ret.err, <<>>, TRUE)
             ELSE IF missing # {}
             THEN HandleResult(<<>>, "", MsgNotAvailable, "",
                      <<currencies[CHOOSE i \in missing : \A j \in missing : i <= j]>>, TRUE)
             ELSE LET p == AllPairs(currencies, ret.rates, 1, <<>>)
                  IN  IF p.err # ErrNone
                      THEN HandleResult(<<>>, "", MsgCalculate, p.err, p.at \o p.arg, TRUE)
                      ELSE HandleResult(p.rates, ret.info, ErrNone, "", <<>>, TRUE)

(***************************************************************************)
(* ExchangeQueryHandler.  A decimal.Decimal of the conversion is           *)
(* [neg, digits, scale]: the coefficient's decimal digits, most            *)
(* significant first, and the number of them after the decimal point, so   *)
(* that coefficients of any length are multiplied, divided and rounded     *)
(* digit by digit.                                                         *)
(***************************************************************************)
DigitChars == <<"0", "1", "2", "3", "4", "5", "6", "7", "8", "9">>

IsDigit(ch) == \E i \in 1..Len(DigitChars) : DigitChars[i] = ch

DigitOf(ch) == (CHOOSE i \in 1..Len(DigitChars) : DigitChars[i] = ch) - 1

Zeros(n) == [i \in 1..n |-> 0]

IsZero(digits) == \A i \in 1..Len(digits) : digits[i] = 0

RECURSIVE IntValue(_)
\* the number a short sequence of digits writes
IntValue(digits) ==
    IF digits = <<>> THEN 0
    ELSE 10 * IntValue(SubSeq(digits, 1, Len(digits) - 1)) + digits[Len(digits)]

RECURSIVE NatDigits(_)
NatDigits(n) == IF n = 0 THEN <<>> ELSE NatDigits(n \div 10) \o <<n % 10>>

\* strconv.ParseInt and big.Int.SetString in base 10: an optional sign
\* followed by one or more digits
ParseInteger(w) ==
    LET signed == w # <<>> /\ w[1] \in {"+", "-"}
        body == IF signed THEN Tail(w) ELSE w
    IN  IF body = <<>> \/ \E i \in 1..Len(body) : ~IsDigit(body[i])
        THEN [ok |-> FALSE, neg |-> FALSE, digits |-> <<>>]
        ELSE [ok |-> TRUE, neg |-> signed /\ w[1] = "-",
              digits |-> [i \in 1..Len(body) |-> DigitOf(body[i])]]

NoDecimal == [neg |-> FALSE, digits |-> <<>>, scale |-> 0]

\* decimal.NewFromString: mantissa with at most one point, optional
\* exponent after e or E; nothing is trimmed
NewFromString(w) ==
    LET es == { i \in 1..Len(w) : w[i] \in {"e", "E"} }
        eIndex == IF es = {} THEN 0 ELSE CHOOSE i \in es : \A j \in es : i <= j
        expo == IF eIndex = 0 THEN [ok |-> TRUE, neg |-> FALSE, digits |-> <<>>]
                ELSE ParseInteger(SubSeq(w, eIndex + 1, Len(w)))
        value == IF eIndex = 0 THEN w ELSE SubSeq(w, 1, eIndex - 1)
        ps == { i \in 1..Len(value) : value[i] = "." }
        pIndex == IF ps = {} THEN 0 ELSE CHOOSE i \in ps : TRUE
        intString == IF pIndex = 0 THEN value
                     ELSE SubSeq(value, 1, pIndex - 1) \o SubSeq(value, pIndex + 1, Len(value))
        fraction == IF pIndex = 0 THEN 0 ELSE Len(value) - pIndex
        parsed == ParseInteger(intString)
        exp == (IF expo.neg THEN 0 - IntValue(expo.digits) ELSE IntValue(expo.digits))
               - fraction
    IN  IF ~expo.ok \/ Cardinality(ps) > 1 \/ ~parsed.ok
        THEN [ok |-> FALSE, d |-> NoDecimal]
        ELSE [ok |-> TRUE,
              d |-> [neg |-> parsed.neg /\ ~IsZero(parsed.digits),
                     digits |-> IF exp > 0 THEN parsed.digits \o Zeros(exp) ELSE parsed.digits,
                     scale |-> IF exp > 0 THEN 0 ELSE 0 - exp]]

RECURSIVE MulDigits(_, _, _, _)
\* the digits times m, from the k-th digit leftwards with the carry
MulDigits(digits, m, k, carry) ==
    IF k = 0 THEN NatDigits(carry)
    ELSE LET v == digits[k] * m + carry
         IN  MulDigits(digits, m, k - 1, v \div 10) \o <<v % 10>>

\* Decimal.Mul by a rate of the registry, whose coefficient is a short number
Mul(d, d2) ==
    [neg |-> d.neg # d2.neg,
     digits |-> MulDigits(d.digits, IntValue(d2.digits), Len(d.digits), 0),
     scale |-> d.scale + d2.scale]

RECURSIVE LongDiv(_, _, _, _, _)
\* quotient digits and remainder of the digits divided by c, from the k-th
\* digit on
LongDiv(digits, c, k, rem, acc) ==
    IF k > Len(digits) THEN [q |-> acc, r |-> rem]
    ELSE LET v == 10 * rem + digits[k]
         IN  LongDiv(digits, c, k + 1, v % c, Append(acc, v \div c))

\* the digits plus one
Increment(digits) ==
    LET u == AddUlp(digits, Len(digits))
    IN  IF u[1] = 1 THEN <<1>> \o u[2] ELSE u[2]

\* Decimal.DivRound by a rate of the registry: QuoRem to precision places,
\* then one unit of the last place added to the magnitude when twice the
\* remainder is not less than the divisor
DivRound(d, d2, precision) ==
    LET c == IntValue(d2.digits)
        e == d2.scale - d.scale + precision
        n == Len(d.digits)
        padded == IF n + e < 0 THEN Zeros(0 - e - n) \o d.digits ELSE d.digits
        aa == IF e >= 0 THEN d.digits \o Zeros(e)
              ELSE SubSeq(padded, 1, Len(padded) + e)
        rest == IF e >= 0 THEN <<>> ELSE SubSeq(padded, Len(padded) + e + 1, Len(padded))
        qr == LongDiv(aa, c, 1, 0, <<>>)
        up == \/ 2 * qr.r >= c
              \/ 2 * qr.r + 1 >= c /\ rest # <<>> /\ rest[1] >= 5
    IN  [neg |-> d.neg # d2.neg,
         digits |-> IF up THEN Increment(qr.q) ELSE qr.q,
         scale |-> precision]

\* Decimal.Round: cut to places + 1 digits after the point, add 5 to the
\* magnitude, drop the last digit
Round(d, places) ==
    IF d.scale = places THEN d
    ELSE LET cut == d.scale - (places + 1)
             ret == IF cut <= 0 THEN d.digits \o Zeros(0 - cut)
                    ELSE IF cut >= Len(d.digits) THEN <<0>>
                    ELSE SubSeq(d.digits, 1, Len(d.digits) - cut)
             front == SubSeq(ret, 1, Len(ret) - 1)
         IN  [neg |-> d.neg,
              digits |-> IF ret[Len(ret)] >= 5 THEN Increment(front) ELSE front,
              scale |-> places]

\* the digits without zeros in front
StripZeros(digits) ==
    LET nz == { i \in 1..Len(digits) : digits[i] # 0 }
    IN  IF nz = {} THEN <<>>
        ELSE SubSeq(digits, CHOOSE i \in nz : \A j \in nz : i <= j, Len(digits))

\* Decimal.String: plain notation, zeros at the end of the fraction dropped
String(d) ==
    LET n == Len(d.digits)
        all == IF n < d.scale THEN Zeros(d.scale - n) \o d.digits ELSE d.digits
        whole == StripZeros(SubSeq(all, 1, Len(all) - d.scale))
        frac == SubSeq(all, Len(all) - d.scale + 1, Len(all))
        nz == { i \in 1..Len(frac) : frac[i] # 0 }
        kept == IF nz = {} THEN <<>>
                ELSE SubSeq(frac, 1, CHOOSE i \in nz : \A j \in nz : j <= i)
        chars(ds) == [i \in 1..Len(ds) |-> DigitChars[ds[i] + 1]]
    IN  (IF d.neg /\ ~IsZero(d.digits) THEN <<"-">> ELSE <<>>)
        \o (IF whole = <<>> THEN <<"0">> ELSE chars(whole))
        \o (IF kept = <<>> THEN <<>> ELSE <<".">> \o chars(kept))

\* entities.CryptoCurrencies, part_003 lines 27-53
CryptoCurrencies ==
    [c \in {"BEER", "FLOKI", "GATE", "USDT", "WBTC"} |->
        CASE c = "BEER" ->
                [DecimalPlaces |-> 18,
                 RateToUSD |-> [neg |-> FALSE, digits |-> <<2, 4, 6, 1>>, scale |-> 8]]
          [] c = "FLOKI" ->
                [DecimalPlaces |-> 18,
                 RateToUSD |-> [neg |-> FALSE, digits |-> <<1, 4, 2, 8>>, scale |-> 7]]
          [] c = "GATE" ->
                [DecimalPlaces |-> 18,
                 RateToUSD |-> [neg |-> FALSE, digits |-> <<6, 8, 7>>, scale |-> 2]]
          [] c = "USDT" ->
                [DecimalPlaces |-> 6,
                 RateToUSD |-> [neg |-> FALSE, digits |-> <<9, 9, 9>>, scale |-> 3]]
          [] OTHER ->
                [DecimalPlaces |-> 8,
                 RateToUSD |-> [neg |-> FALSE, digits |-> <<5, 7, 0, 3, 7, 2, 2>>, scale |-> 2]]]

\* Currency.RoundToDecimalPlaces
RoundToDecimalPlaces(currency, amount) == Round(amount, currency.DecimalPlaces)

MsgRequired == "from, to, and amount parameters are required"
MsgInvalidAmount == "invalid amount"
MsgNotPositive == "amount must be positive"
MsgUnsupported == "unsupported currency"

ExchangeResult(from, to, amount, err, arg) ==
    [From |-> from, To |-> to, Amount |-> amount, err |-> err, arg |-> arg]

ExchangeError(err, arg) == ExchangeResult("", "", NoDecimal, err, arg)

\* variant: the currencies are looked up before the amount is looked at
ExchangeQueryHandle_CurrenciesFirst(query) ==
    LET from == AsString(ToUpper(TrimSpace(query.From)))
        to == AsString(ToUpper(TrimSpace(query.To)))
        amount == NewFromString(query.Amount)
    IN  IF from = "" \/ to = "" \/ query.Amount = <<>>
        THEN ExchangeError(MsgRequired, "")
        ELSE IF from \notin DOMAIN CryptoCurrencies
        THEN ExchangeError(MsgUnsupported, from)
        ELSE IF to \notin DOMAIN CryptoCurrencies
        THEN ExchangeError(MsgUnsupported, to)
        ELSE IF ~amount.ok
        THEN ExchangeError(MsgInvalidAmount, "")
        ELSE IF amount.d.neg \/ IsZero(amount.d.digits)
        THEN ExchangeError(MsgNotPositive, "")
        ELSE LET usdAmount == Mul(amount.d, CryptoCurrencies[from].RateToUSD)
                 resultAmount == DivRound(usdAmount, CryptoCurrencies[to].RateToUSD,
                                          DivisionPrecision)
             IN  ExchangeResult(from, to,
                     RoundToDecimalPlaces(CryptoCurrencies[to], resultAmount), ErrNone, "")

\* ExchangeQueryHandler.Handle, part_002 lines 24-61
ExchangeQueryHandle(query) ==
    LET from == AsString(ToUpper(TrimSpace(query.From)))
        to == AsString(ToUpper(TrimSpace(query.To)))
        amount == NewFromString(query.Amount)
    IN  IF from = "" \/ to = "" \/ query.Amount = <<>>
        THEN ExchangeError(MsgRequired, "")
        ELSE IF ~amount.ok
        THEN ExchangeError(MsgInvalidAmount, "")
        ELSE IF amount.d.neg \/ IsZero(amount.d.digits)
        THEN ExchangeError(MsgNotPositive, "")
        ELSE IF from \notin DOMAIN CryptoCurrencies
        THEN ExchangeError(MsgUnsupported, from)
        ELSE IF to \notin DOMAIN CryptoCurrencies
        THEN ExchangeError(MsgUnsupported, to)
        ELSE LET usdAmount == Mul(amount.d, CryptoCurrencies[from].RateToUSD)
                 resultAmount == DivRound(usdAmount, CryptoCurrencies[to].RateToUSD,
                                          DivisionPrecision)
             IN  ExchangeResult(from, to,
                     RoundToDecimalPlaces(CryptoCurrencies[to], resultAmount), ErrNone, "")

(***************************************************************************)
(* State machine                                                           *)
(*                                                                         *)
(* changedAt, outcomes, dropped and unreturnedRun are history variables:   *)
(* the time of the breaker's last state change, the outcomes the breaker   *)
(* has counted in its current generation (the three most recent), the      *)
(* consecutive failures that the last rollover of the Closed counting      *)
(* interval threw away, and the number of calls in a row, as the breaker   *)
(* counted them, that got a rates object lacking a currency they named     *)
(* (kept while the breaker is Open).  No action reads them.                *)
(***************************************************************************)
InProgress == BagCardinality(inflight) + pendingLog

\* rq is the rates query most recently handled: the query, the repository
\* that served it, what the repository returned (or would have), whether
\* an outbound request was made, and what Handle returned
NoQuery ==
    [query |-> <<>>, src |-> [kind |-> "none", resp |-> "", rates |-> NoRates],
     ret |-> Return("none", NoRates, "", ErrNone, "", ""),
     sent |-> FALSE,
     out |-> HandleResult(<<>>, "", ErrNone, "", <<>>, FALSE)]

\* xq is the conversion most recently handled: the query, what
\* ExchangeQueryHandler.Handle returned for it and, once the result has
\* been converted back, what Handle returned for that
NoExchange ==
    [stage |-> "none",
     query |-> [From |-> <<>>, To |-> <<>>, Amount |-> <<>>],
     out |-> ExchangeError(ErrNone, ""),
     back |-> ExchangeError(ErrNone, "")]

LastThree(s) == IF Len(s) <= 3 THEN s ELSE SubSeq(s, Len(s) - 2, Len(s))

\* the request names a currency other than USD that the provider omits
NamesUnreturned(currencies) ==
    \E i \in 1..Len(currencies) :
        currencies[i] # "USD" /\ currencies[i] \notin DOMAIN ProviderRates

\* history kept across a step that takes the breaker from cb to b;
\* counted is <<>> or the one outcome the breaker counted in this step,
\* unreturned tells whether that call got rates lacking a named currency
Observe(b, counted, unreturned) ==
    /\ unreturnedRun' = IF counted # <<>>
                        THEN (IF unreturned THEN unreturnedRun + 1 ELSE 0)
                        ELSE IF b.generation # cb.generation /\ b.state # StateOpen
                        THEN 0 ELSE unreturnedRun
    /\ changedAt' = IF b.state # cb.state THEN now ELSE changedAt
    /\ dropped' = IF b.state # cb.state THEN 0
                  ELSE IF b.generation # cb.generation
                  THEN cb.counts.ConsecutiveFailures ELSE dropped
    /\ outcomes' = IF b.generation # cb.generation THEN <<>>
                   ELSE LastThree(outcomes \o counted)

Init ==
    /\ apiKey \in BOOLEAN
    /\ now = 1
    /\ cb = NewCircuitBreaker(1)
    /\ inflight = EmptyBag
    /\ pendingLog = 0
    /\ last = Return("init", NoRates, "", ErrNone, "", "")
    /\ changedAt = 1
    /\ outcomes = <<>>
    /\ dropped = 0
    /\ unreturnedRun = 0
    /\ rq = NoQuery
    /\ xq = NoExchange

\* GetRates with no credential: lines 560-564
GetRatesMock(currencies) ==
    /\ ~apiKey
    /\ last' = Return("GetRates", getMockRates(currencies), InfoMock, ErrNone, "", "")
    /\ UNCHANGED <<apiKey, cb, now, inflight, pendingLog, changedAt, outcomes, dropped, unreturnedRun, rq, xq>>

\* GetRates with a credential, up to the breaker's admission decision:
\* rejected calls return at once, admitted ones start the fetch
GetRatesExecute(currencies) ==
    /\ apiKey
    /\ LET r == beforeRequest(cb, now)
       IN  /\ cb' = r.cb
           /\ Observe(r.cb, <<>>, FALSE)
           /\ IF r.err = ErrOpenState
              THEN /\ last' = LET e == GetRatesError(r.err, "")
                              IN  Return("GetRates", NoRates, "", e.err, e.cause, e.arg)
                   /\ UNCHANGED inflight
              ELSE IF r.err = ErrTooManyRequests
              THEN /\ last' = LET e == GetRatesError(r.err, "")
                              IN  Return("GetRates", NoRates, "", e.err, e.cause, e.arg)
                   /\ UNCHANGED inflight
              ELSE /\ InProgress < MaxInFlight
                   /\ cb.counts.Requests < MaxRequestsPerGen
                   /\ inflight' = inflight (+) SetToBag({[generation |-> r.generation,
                                                         currencies |-> currencies]})
                   /\ last' = Return("Execute", NoRates, "", ErrNone, "", "")
    /\ UNCHANGED <<apiKey, now, pendingLog, rq, xq>>

\* The fetch of an admitted call ends with the provider's response; the
\* breaker records the outcome and GetRates fixes its return value
FetchDone(call, resp) ==
    /\ BagIn(call, inflight)
    /\ LET f == fetchRatesFromAPI(call.currencies, resp)
           b == afterRequest(cb, call.generation, isSuccessful(f.err), now)
       IN  /\ cb' = b
           /\ Observe(b, IF currentState(cb, now).generation = call.generation
                         THEN <<f.err = ErrNone>> ELSE <<>>,
                      resp = "ok" /\ NamesUnreturned(call.currencies))
           /\ last' = LiveReturn(call.currencies, resp)
    /\ inflight' = inflight (-) SetToBag({call})
    /\ pendingLog' = pendingLog + 1
    /\ UNCHANGED <<apiKey, now, rq, xq>>

\* circuitBreaker.State() read for the log line, lines 582 and 591
LogState ==
    /\ pendingLog > 0
    /\ cb' = currentState(cb, now)
    /\ Observe(currentState(cb, now), <<>>, FALSE)
    /\ pendingLog' = pendingLog - 1
    /\ last' = Return("State", NoRates, "", ErrNone, "", "")
    /\ UNCHANGED <<apiKey, now, inflight, rq, xq>>

Tick ==
    /\ now + TickStep <= MaxTime
    /\ now' = now + TickStep
    /\ last' = Return("Tick", NoRates, "", ErrNone, "", "")
    /\ UNCHANGED <<apiKey, cb, inflight, pendingLog, changedAt, outcomes, dropped, unreturnedRun, rq, xq>>

Next ==
    \/ \E c \in CurrencyLists : GetRatesMock(c)
    \/ \E c \in CurrencyLists : GetRatesExecute(c)
    \/ \E call \in BagToSet(inflight), resp \in Responses : FetchDone(call, resp)
    \/ LogState
    \/ Tick

Spec == Init /\ [][Next]_vars

(***************************************************************************)
(* The repository when the provider recovers: fetches may fail up to the   *)
(* time FailUntil and succeed from then on, while calls for currencies the *)
(* provider returns keep arriving.  FailUntil leaves the clock of the      *)
(* model room for a whole cool-down.  The fairness conditions are the      *)
(* code's: the HTTP client gives up after 10s (line 551), so every fetch   *)
(* ends; the State() read of the log line follows the fetch in the same    *)
(* call; the clock advances; and calls keep arriving by hypothesis.        *)
(***************************************************************************)
FailUntil == MaxTime - TickStep - Timeout

FetchDoneLive(call, resp) ==
    /\ now > FailUntil => resp = "ok"
    /\ FetchDone(call, resp)

Arrive == GetRatesExecute(<<"USD", "EUR">>)

FetchEnds == \E call \in BagToSet(inflight), resp \in Responses : FetchDoneLive(call, resp)

NextLive ==
    \/ Arrive
    \/ FetchEnds
    \/ LogState
    \/ Tick

InitLive == Init /\ apiKey

SpecLive ==
    /\ InitLive
    /\ [][NextLive]_vars
    /\ WF_vars(Arrive)
    /\ WF_vars(FetchEnds)
    /\ WF_vars(LogState)
    /\ WF_vars(Tick)

(***************************************************************************)
(* The rates query by itself: one call of GetRatesQueryHandler.Handle,     *)
(* from the query to the result, on a freshly constructed repository.      *)
(* The repository is RatesRepositoryImpl without a credential (mock        *)
(* rates), RatesRepositoryImpl with one (the call passes the breaker, the  *)
(* fetch ends with one of the provider's responses and the breaker counts  *)
(* it), or any other implementation of the RatesRepository interface,      *)
(* here the stub of the handler's tests, which answers from whatever map   *)
(* it was given.                                                           *)
(***************************************************************************)
RawCodes ==
    { <<"u", "s", "d">>, <<" ", "E", "U", "R", " ">>, <<"e", "u", "r">>,
      <<"G", "B", "P">>, <<"X", "X", "X">> }

RECURSIVE SeqsUpTo(_, _)
SeqsUpTo(S, n) ==
    IF n = 0 THEN {<<>>}
    ELSE LET shorter == SeqsUpTo(S, n - 1)
         IN  shorter \cup { Append(q, x) : q \in shorter, x \in S }

Queries == SeqsUpTo(RawCodes, MaxQueryLen)

StubValues == {0 - 73, 0, 85, 300}

StubMaps ==
    UNION { [codes -> StubValues] : codes \in SUBSET {"USD", "EUR", "GBP"} }

InfoStub == "test repository"

Sources ==
    { [kind |-> "mock", resp |-> "", rates |-> NoRates] }
    \cup { [kind |-> "live", resp |-> r, rates |-> NoRates] : r \in Responses }
    \cup { [kind |-> "stub", resp |-> "", rates |-> m] : m \in StubMaps }

\* what GetRates of the repository returns for the currencies
RepoReturn(src, currencies) ==
    CASE src.kind = "mock" ->
            Return("GetRates", getMockRates(currencies), InfoMock, ErrNone, "", "")
      [] src.kind = "live" -> LiveReturn(currencies, src.resp)
      [] OTHER ->
            Return("GetRates",
                   [c \in SeqToSet(currencies) \cap DOMAIN src.rates |-> src.rates[c]],
                   InfoStub, ErrNone, "", "")

\* one query is handled per behaviour: Handle keeps nothing between calls.
\* When Handle reaches ratesRepo.GetRates on the repository with a
\* credential, the call runs through Execute and the State() read in one go
RatesQuery(q, src) ==
    /\ rq = NoQuery
    /\ src.kind = "mock" => ~apiKey
    /\ src.kind = "live" => apiKey
    /\ LET currencies == Normalize(q)
           ret == RepoReturn(src, currencies)
           out == Handle(q, ret)
           r == beforeRequest(cb, now)
           f == fetchRatesFromAPI(currencies, src.resp)
           b == currentState(
                    afterRequest(r.cb, r.generation, isSuccessful(f.err), now), now)
       IN  /\ rq' = [query |-> q, src |-> src, ret |-> ret,
                     sent |-> out.called /\ src.kind = "live", out |-> out]
           /\ IF out.called /\ src.kind = "live"
              THEN /\ r.err = ErrNone
                   /\ cb' = b
                   /\ Observe(b, <<f.err = ErrNone>>,
                              src.resp = "ok" /\ NamesUnreturned(currencies))
              ELSE UNCHANGED <<cb, changedAt, outcomes, dropped, unreturnedRun>>
    /\ UNCHANGED <<apiKey, now, inflight, pendingLog, last, xq>>

NextRates ==
    /\ rq = NoQuery
    /\ \E q \in Queries, src \in Sources : RatesQuery(q, src)

SpecRates == Init /\ [][NextRates]_vars

(***************************************************************************)
(* The conversion by itself: one call of ExchangeQueryHandler.Handle and,  *)
(* when it succeeded, one more that converts the result back, its amount   *)
(* written as Decimal.String writes it.  The handler keeps no state and    *)
(* uses neither the repository nor the breaker.                            *)
(***************************************************************************)
ExchangeCodes ==
    { <<"w", "b", "t", "c">>, <<" ", "U", "S", "D", "T", " ">>, <<"B", "E", "E", "R">>,
      <<"F", "L", "O", "K", "I">>, <<"G", "A", "T", "E">>, <<"M", "A", "T", "I", "C">>,
      <<>>, <<" ", " ">> }

UnparsableAmounts ==
    { <<"n", "o">>, <<"1", ".", "2", ".", "3">>, <<" ", "1">>, <<".">>, <<"1", "e">> }

NonPositiveAmounts ==
    { <<"0">>, <<"-", "1", ".", "0">>, <<"0", ".", "0", "0">> }

PositiveAmounts ==
    { <<"1">>, <<"1", ".", "0">>, <<"1", "0", "0", ".", "0">>,
      <<"1", "0", "0", "0", ".", "0">>, <<"1", "0", "0", "0", "0", "0", ".", "0">>,
      <<"1", "e", "2">>, <<"2", ".", "5">>,
      <<"0", ".", "0", "0", "0", "0", "0", "0", "0", "0", "5">>,
      <<"0", ".", "0", "0", "0", "0", "0", "0", "0", "0", "0", "0", "0", "0", "0", "0",
        "0", "0", "1">>,
      <<"0", ".", "0", "0", "0", "0", "0", "0", "4", "9", "9", "9", "9", "9", "9", "9",
        "9", "9", "9">> }

Amounts == {<<>>} \cup UnparsableAmounts \cup NonPositiveAmounts \cup PositiveAmounts

Exchange(from, to, amount) ==
    /\ xq = NoExchange
    /\ LET query == [From |-> from, To |-> to, Amount |-> amount]
       IN  xq' = [stage |-> "out", query |-> query,
                  out |-> ExchangeQueryHandle(query),
                  back |-> ExchangeError(ErrNone, "")]
    /\ UNCHANGED <<apiKey, cb, now, inflight, pendingLog, last,
                   changedAt, outcomes, dropped, unreturnedRun, rq>>

ExchangeBack ==
    /\ xq.stage = "out"
    /\ xq.out.err = ErrNone
    /\ xq' = [xq EXCEPT
                !.stage = "back",
                !.back = ExchangeQueryHandle([From |-> Spelling[xq.out.To],
                                              To |-> Spelling[xq.out.From],
                                              Amount |-> String(xq.out.Amount)])]
    /\ UNCHANGED <<apiKey, cb, now, inflight, pendingLog, last,
                   changedAt, outcomes, dropped, unreturnedRun, rq>>

NextExchange ==
    \/ /\ xq = NoExchange
       /\ \E from \in ExchangeCodes, to \in ExchangeCodes, amount \in Amounts :
              Exchange(from, to, amount)
    \/ ExchangeBack

SpecExchange == Init /\ [][NextExchange]_vars

TypeOK ==
    /\ apiKey \in BOOLEAN
    /\ cb.state \in States
    /\ cb.generation \in Nat
    /\ now \in 1..MaxTime
    /\ pendingLog \in 0..MaxInFlight

(***************************************************************************)
(* Vocabulary of the properties.  A step is recognised by the operation    *)
(* that last' names; the call whose fetch ends in a step is the one the    *)
(* step takes out of inflight.                                             *)
(***************************************************************************)
ArrivalStep == last'.op \in {"GetRates", "Execute"}
AdmittedStep == last'.op = "Execute"
FetchStep == last'.op = "Fetch"
FetchFailed == FetchStep /\ last'.err # ErrNone
FetchSucceeded == FetchStep /\ last'.err = ErrNone

Finished == CHOOSE c \in BagToSet(inflight) : CopiesIn(c, inflight') < CopiesIn(c, inflight)

\* calls in flight that were admitted in generation g
InFlightOf(g) ==
    BagCardinality([c \in {x \in BagToSet(inflight) : x.generation = g} |-> inflight[c]])

\* calls in flight that were admitted in the breaker's current generation
TrialsInFlight == InFlightOf(cb.generation)

\* seconds since the breaker last changed state
SinceChange == now - changedAt

\* the outcome of the ending fetch belongs to the breaker's current
\* generation and counting interval
CountedStep == FetchStep /\ Finished.generation = cb.generation /\ now <= cb.expiry

\* C1: with a credential and the breaker Closed, a step opens the breaker
\* exactly when it is the failure of a call of the current counting interval
\* that brings the consecutive-failure count to 3; otherwise it stays Closed
C1_TripAtThree ==
    [][(apiKey /\ cb.state = StateClosed) =>
          /\ cb'.state \in {StateClosed, StateOpen}
          /\ (cb'.state = StateOpen) <=>
                (FetchFailed /\ CountedStep /\ cb.counts.ConsecutiveFailures + 1 = 3)]_vars

C1_Witness ==
    /\ cb.state = StateOpen /\ cb.generation = 2
    /\ last.op = "Fetch" /\ last.err = MsgFailed
    /\ outcomes = <<>> /\ now = 1

\* C2: while Open with at most 30s since it opened, every arriving call
\* returns the unavailable error, starts no fetch and leaves the breaker as is
C2_OpenFailsFast ==
    [][(apiKey /\ cb.state = StateOpen /\ SinceChange <= 30 /\ ArrivalStep) =>
          /\ last'.op = "GetRates" /\ last'.err = MsgUnavailable
          /\ inflight' = inflight
          /\ cb' = cb]_vars

\* the 4th call right after three failures: rejected, nothing in flight
C2_Witness ==
    /\ cb.state = StateOpen /\ cb.generation = 2 /\ now = 1
    /\ last.op = "GetRates" /\ last.err = MsgUnavailable
    /\ inflight = EmptyBag

\* C3: Open is left only to Half-Open and only when 30s have passed since it
\* was entered; the first call arriving after the cool-down (the breaker still
\* Open, or Half-Open with no trial yet) is admitted as a Half-Open trial
C3_CoolDown ==
    [][/\ (cb.state = StateOpen /\ cb'.state # StateOpen) =>
              (cb'.state = StateHalfOpen /\ SinceChange >= 30)
       /\ (/\ apiKey /\ ArrivalStep
           /\ \/ cb.state = StateOpen /\ SinceChange > 30
              \/ cb.state = StateHalfOpen /\ cb.counts.Requests = 0) =>
              /\ AdmittedStep
              /\ cb'.state = StateHalfOpen
              /\ TrialsInFlight' = 1]_vars

C3_Witness ==
    /\ cb.state = StateHalfOpen /\ cb.generation = 3 /\ changedAt = now
    /\ last.op = "Execute" /\ InFlightOf(3) = 1

\* C4: in Half-Open the first trial that succeeds closes the breaker
C4_FirstSuccessCloses ==
    [][(/\ cb.state = StateHalfOpen /\ FetchSucceeded
        /\ Finished.generation = cb.generation
        /\ cb.counts.TotalSuccesses = 0) => cb'.state = StateClosed]_vars

\* C5: in Half-Open any trial that fails sends the breaker back to Open
C5_TrialFailureOpens ==
    [][(/\ cb.state = StateHalfOpen /\ FetchFailed
        /\ Finished.generation = cb.generation) =>
            (cb'.state = StateOpen /\ changedAt' = now)]_vars

C5_Witness ==
    /\ cb.state = StateOpen /\ cb.generation = 4 /\ changedAt = now
    /\ last.op = "Fetch" /\ last.err = MsgFailed

\* C6 as stated: in Half-Open with 3 trials admitted and some undecided, an
\* arriving call opens the breaker
C6_OverflowOpens ==
    [][(/\ apiKey /\ cb.state = StateHalfOpen /\ cb.counts.Requests >= 3
        /\ InFlightOf(cb.generation) > 0
        /\ ArrivalStep) => cb'.state = StateOpen]_vars

\* C6 as amended: such a call is refused with the too-many-requests error
\* and the breaker stays Half-Open, state and counters untouched
C6_OverflowRejected ==
    [][(/\ apiKey /\ cb.state = StateHalfOpen /\ cb.counts.Requests >= 3
        /\ InFlightOf(cb.generation) > 0
        /\ ArrivalStep) =>
            /\ last'.op = "GetRates" /\ last'.err = MsgRateLimited
            /\ cb' = cb
            /\ inflight' = inflight]_vars

C6_Witness ==
    /\ cb.state = StateHalfOpen /\ cb.counts.Requests = 3
    /\ InFlightOf(cb.generation) > 0
    /\ last.op = "GetRates" /\ last.err = MsgRateLimited

\* trials of the current Half-Open period that reached the network: those in
\* flight and those that have succeeded (a failed one ends the period)
TrialsSent == InFlightOf(cb.generation) + Len(outcomes)

\* C7: a Half-Open period admits at most 3 calls, whatever the interleaving;
\* a call arriving once 3 were admitted gets the too-many-requests error in
\* the same step and starts no fetch
C7_TrialQuota ==
    [][(apiKey /\ ArrivalStep /\ cb.state = StateHalfOpen) =>
          /\ (AdmittedStep => TrialsSent < 3 /\ TrialsSent' <= 3)
          /\ (TrialsSent >= 3 =>
                /\ last'.op = "GetRates" /\ last'.err = MsgRateLimited
                /\ inflight' = inflight)]_vars

C7_Witness ==
    /\ cb.state = StateHalfOpen /\ InFlightOf(cb.generation) = 3
    /\ last.op = "GetRates" /\ last.err = MsgRateLimited

C9_SuccessResets ==
    [][cb.state = StateClosed =>
          /\ (FetchSucceeded /\ CountedStep) =>
                (cb'.state = StateClosed /\ cb'.counts.ConsecutiveFailures = 0)
          /\ cb'.state = StateOpen =>
                /\ FetchFailed
                /\ Len(outcomes) >= 2
                /\ ~outcomes[Len(outcomes)] /\ ~outcomes[Len(outcomes) - 1]]_vars

\* fail, fail, success, fail, fail in one counting interval: still Closed
C9_Witness ==
    /\ cb.state = StateClosed /\ cb.generation = 1
    /\ cb.counts.TotalFailures = 4 /\ cb.counts.TotalSuccesses = 1
    /\ outcomes = <<TRUE, FALSE, FALSE>>

\* C10: in Closed the counters are cleared by the first breaker operation
\* after the 60s interval has elapsed and by no call before that, and a
\* failure that follows a rollover which discarded 2 failures leaves it Closed
C10_IntervalRollover ==
    [][cb.state = StateClosed =>
          /\ (cb' # cb /\ now > cb.expiry) =>
                /\ cb'.state = StateClosed
                /\ cb'.generation = cb.generation + 1
                /\ cb'.expiry = now + 60
                /\ cb'.counts = [ClearCounts EXCEPT
                                    !.Requests = IF AdmittedStep THEN 1 ELSE 0]
          /\ (AdmittedStep /\ now <= cb.expiry) =>
                cb'.counts = [cb.counts EXCEPT !.Requests = @ + 1]
          /\ (FetchFailed /\ dropped = 2 /\ outcomes = <<>>) =>
                cb'.state = StateClosed]_vars

C10_Witness ==
    /\ cb.state = StateClosed /\ cb.generation = 2
    /\ dropped = 2 /\ outcomes = <<FALSE>>
    /\ cb.counts.ConsecutiveFailures = 1
    /\ last.op = "Fetch" /\ last.err = MsgFailed

\* the state-change events logged so far lead from Closed to the current
\* state, each starting where the one before it ended and naming two
\* different states
EventChain ==
    /\ \A i \in 1..Len(cb.emitted) :
          /\ cb.emitted[i].from # cb.emitted[i].to
          /\ cb.emitted[i].from =
                IF i = 1 THEN StateClosed ELSE cb.emitted[i - 1].to
    /\ cb.state = IF cb.emitted = <<>> THEN StateClosed
                  ELSE cb.emitted[Len(cb.emitted)].to

\* C11: a step that changes the breaker's state logs exactly one event with
\* the previous and the new state name, a step that does not logs none, and
\* the events chain from Closed, each naming two different states
C11_StateChangeEvents ==
    /\ []EventChain
    /\ [][IF cb'.state # cb.state
          THEN cb'.emitted = Append(cb.emitted,
                    [service |-> "openexchange-api", from |-> cb.state, to |-> cb'.state])
          ELSE cb'.emitted = cb.emitted]_vars

\* Closed, Open, Half-Open and on: three events logged
C11_Witness ==
    /\ Len(cb.emitted) = 3
    /\ cb.emitted[1] = [service |-> "openexchange-api", from |-> "closed", to |-> "open"]
    /\ cb.emitted[2] = [service |-> "openexchange-api", from |-> "open", to |-> "half-open"]
    /\ cb.emitted[3].from = "half-open"

\* the errors the fetch can return
FetchErrors ==
    {"failed to make request", "API returned status", "failed to decode response",
     "not supported by the exchange rates provider"}

\* C12: whatever error the fetch of a call of the breaker's current
\* generation returns, the breaker counts a failure: in Closed both failure
\* counters go up by one or the breaker trips, in Half-Open it re-opens
C12_ErrorsCountAsFailures ==
    [][(apiKey /\ FetchFailed /\ CountedStep) =>
          /\ last'.cause \in FetchErrors
          /\ \/ /\ cb.state = StateClosed /\ cb'.state = StateClosed
                /\ cb'.counts.TotalFailures = cb.counts.TotalFailures + 1
                /\ cb'.counts.ConsecutiveFailures = cb.counts.ConsecutiveFailures + 1
                /\ outcomes' # <<>> /\ ~outcomes'[Len(outcomes')]
             \/ /\ cb.state = StateClosed /\ cb'.state = StateOpen
                /\ cb.counts.ConsecutiveFailures = 2
             \/ /\ cb.state = StateHalfOpen /\ cb'.state = StateOpen]_vars

\* a cancelled or failed request, then an undecodable body: two failures
C12_Witness ==
    /\ cb.state = StateClosed /\ cb.counts.ConsecutiveFailures = 2
    /\ cb.counts.Requests = 2
    /\ last.op = "Fetch" /\ last.cause \in {"failed to decode response", "failed to make request"}
    /\ outcomes = <<FALSE, FALSE>>

\* C17: a call refused by the breaker returns the unavailable error when the
\* breaker is Open and the too-many-requests error when it is Half-Open,
\* and a call whose fetch failed returns neither but the wrapped fetch error
C17_DistinctErrors ==
    [][apiKey =>
          /\ (ArrivalStep /\ ~AdmittedStep) =>
                \/ cb'.state = StateOpen /\ last'.err = MsgUnavailable
                \/ cb'.state = StateHalfOpen /\ last'.err = MsgRateLimited
          /\ FetchFailed =>
                /\ last'.err = "failed to fetch live exchange rates"
                /\ last'.err \notin {MsgUnavailable, MsgRateLimited}
                /\ last'.cause \in FetchErrors]_vars

\* a transport failure reported while the breaker is already Open
C17_Witness ==
    /\ cb.state = StateOpen /\ SinceChange > 0
    /\ last.op = "Fetch" /\ last.err = MsgFailed
    /\ last.cause = "failed to make request"

\* C14: with a credential, three requests in a row that each name a
\* currency missing from the provider's rates leave the breaker Open, and
\* within 30s of that a request for USD and EUR, which the provider does
\* return, gets the unavailable error without a fetch
C14_UnreturnedCurrencyTrips ==
    /\ [](apiKey /\ unreturnedRun >= 3 => cb.state = StateOpen)
    /\ [][(/\ unreturnedRun = 3 /\ SinceChange <= 30
           /\ GetRatesExecute(<<"USD", "EUR">>)) =>
              /\ last'.op = "GetRates" /\ last'.err = MsgUnavailable
              /\ inflight' = inflight
              /\ cb' = cb]_vars

C14_Witness ==
    /\ unreturnedRun = 3 /\ cb.state = StateOpen /\ cb.generation = 2
    /\ last.op = "GetRates" /\ last.err = MsgUnavailable
    /\ inflight = EmptyBag /\ pendingLog = 0

(***************************************************************************)
(* Vocabulary of the properties of the rates query: they are stated on     *)
(* the query that was handled, on what the repository returned for it and  *)
(* on what Handle returned.                                                *)
(***************************************************************************)
Asked == rq # NoQuery

\* the currencies as the repository sees them
Requested == Normalize(rq.query)

\* the first of the requested currencies that is not in the set of codes
FirstNotIn(codes) ==
    Requested[CHOOSE i \in 1..Len(Requested) :
                  /\ Requested[i] \notin codes
                  /\ \A j \in 1..(i - 1) : Requested[j] \in codes]

Unsupported == "not supported by the exchange rates provider"

\* a decimal quotient is strictly positive
Positive(d) == ~d.neg /\ (d.int > 0 \/ \E k \in 1..Len(d.frac) : d.frac[k] > 0)

\* C18: a query of zero or one currency fails with the 'at least two
\* currencies are required' error, returns no rates, and the repository is
\* not called: no request goes out and the breaker is as it was constructed
C18_TooFewCurrencies ==
    (Asked /\ Len(rq.query) < 2) =>
        /\ rq.out.err = MsgTooFew
        /\ rq.out.rates = <<>>
        /\ ~rq.out.called
        /\ ~rq.sent
        /\ cb = NewCircuitBreaker(1)

\* a single currency asked of the repository that has a credential
C18_Witness ==
    /\ Len(rq.query) = 1 /\ rq.src.kind = "live" /\ rq.src.resp = "ok"
    /\ rq.out.err = MsgTooFew /\ ~rq.out.called

\* C19: for a query of two or more currencies, when the repository returns
\* an error Handle fails with 'failed to get rates' wrapping it and returns
\* no rates; when the repository succeeds but its map lacks a requested
\* currency Handle fails with 'is not supported or not available' naming
\* the first such currency and returns no rates
C19_IncompleteOrFailed ==
    (Asked /\ Len(rq.query) >= 2) =>
        /\ rq.out.called
        /\ rq.ret.err # ErrNone =>
              /\ rq.out.err = MsgGetRates
              /\ rq.out.cause = rq.ret.err
              /\ rq.out.rates = <<>>
        /\ (rq.ret.err = ErrNone /\ ~(SeqToSet(Requested) \subseteq DOMAIN rq.ret.rates)) =>
              /\ rq.out.err = MsgNotAvailable
              /\ rq.out.arg = <<FirstNotIn(DOMAIN rq.ret.rates)>>
              /\ rq.out.rates = <<>>

\* a repository that answers USD and EUR when USD, GBP and EUR were asked
C19_Witness ==
    /\ rq.src.kind = "stub" /\ DOMAIN rq.ret.rates = {"USD", "EUR"}
    /\ Requested = <<"USD", "GBP", "EUR">>
    /\ rq.out.err = MsgNotAvailable /\ rq.out.arg = <<"GBP">>
    /\ rq.out.rates = <<>>

\* C16: when the repository with a credential is asked and the provider
\* answers, GetRates succeeds exactly when every requested currency other
\* than USD is among the provider's rates; its map then holds the requested
\* currencies and nothing else, USD at 1 and the others at the provider's
\* value; otherwise it fails naming the first missing currency and returns
\* no map.  A GetRates that succeeds had an answer from the provider
C16_LiveMapping ==
    (Asked /\ rq.sent) =>
        /\ rq.ret.err = ErrNone => rq.src.resp = "ok"
        /\ rq.src.resp = "ok" =>
              IF SeqToSet(Requested) \subseteq DOMAIN ProviderRates \cup {"USD"}
              THEN /\ rq.ret.err = ErrNone
                   /\ rq.ret.info = InfoLive
                   /\ DOMAIN rq.ret.rates = SeqToSet(Requested)
                   /\ \A c \in SeqToSet(Requested) :
                         rq.ret.rates[c] = IF c = "USD" THEN One ELSE ProviderRates[c]
              ELSE /\ rq.ret.err = MsgFailed
                   /\ rq.ret.cause = Unsupported
                   /\ rq.ret.arg = FirstNotIn(DOMAIN ProviderRates \cup {"USD"})
                   /\ rq.ret.rates = NoRates

\* EUR and GBP asked without USD: the map has no USD
C16_Witness ==
    /\ rq.sent /\ rq.ret.err = ErrNone
    /\ DOMAIN rq.ret.rates = {"EUR", "GBP"}
    /\ rq.ret.rates["EUR"] = 85 /\ rq.ret.rates["GBP"] = 73

\* C20: when the repository's map holds every requested currency and the
\* rate of a currency that takes part in a pair is zero or negative, Handle
\* fails with 'failed to calculate rate' wrapping 'invalid rate'; and every
\* rate Handle returns is strictly positive
C20_NonPositiveRejected ==
    (Asked /\ rq.out.called /\ rq.ret.err = ErrNone
           /\ SeqToSet(Requested) \subseteq DOMAIN rq.ret.rates) =>
        /\ (/\ Cardinality(SeqToSet(Requested)) >= 2
            /\ \E c \in SeqToSet(Requested) : rq.ret.rates[c] <= 0) =>
              /\ rq.out.err = MsgCalculate
              /\ rq.out.cause = "invalid rate"
        /\ \A k \in 1..Len(rq.out.rates) : Positive(rq.out.rates[k].rate)

\* C13 as stated: whenever Handle fails for too few currencies or for a
\* currency that is not supported, by Handle's own check or by the fetch's,
\* no request went out and the breaker is as it was constructed
C13_NoNetworkNoBreaker ==
    (/\ Asked
     /\ \/ rq.out.err \in {MsgTooFew, MsgNotAvailable}
        \/ rq.out.err = MsgGetRates /\ rq.ret.cause = Unsupported) =>
        /\ ~rq.sent
        /\ cb = NewCircuitBreaker(1)

\* C13: when Handle fails for too few currencies, or by its own check for a
\* currency missing from the repository's map, no request went out and the
\* breaker is as it was constructed; when, with a credential, the failure
\* is the fetch's 'not supported by the exchange rates provider', the
\* request went out and the breaker, still Closed, counted one request and
\* one failure
C13_LocalUnlessProvider ==
    Asked =>
        /\ rq.out.err \in {MsgTooFew, MsgNotAvailable} =>
              /\ ~rq.sent
              /\ cb = NewCircuitBreaker(1)
        /\ (rq.out.err = MsgGetRates /\ rq.ret.cause = Unsupported) =>
              /\ rq.sent /\ rq.src.resp = "ok"
              /\ SeqToSet(Requested) \ (DOMAIN ProviderRates \cup {"USD"}) # {}
              /\ cb.state = StateClosed
              /\ cb.counts.Requests = 1
              /\ cb.counts.TotalFailures = 1
              /\ cb.counts.ConsecutiveFailures = 1
              /\ cb.counts.TotalSuccesses = 0

\* EUR and XXX asked with a credential: the provider was asked and the
\* breaker counted the failure
C13_Witness ==
    /\ Requested = <<"EUR", "XXX">> /\ rq.sent
    /\ rq.out.err = MsgGetRates /\ rq.ret.cause = Unsupported /\ rq.ret.arg = "XXX"
    /\ cb.counts.ConsecutiveFailures = 1

\* C15: with no credential GetRates succeeds with the mock description and
\* the map of exactly the requested currencies that are in the built-in
\* table, at the table's rates; no request goes out and the breaker is as
\* it was constructed
C15_MockMode ==
    (Asked /\ ~apiKey /\ rq.src.kind = "mock") =>
        /\ rq.ret.err = ErrNone
        /\ rq.ret.info = InfoMock
        /\ DOMAIN rq.ret.rates = SeqToSet(Requested) \cap DOMAIN MockRates
        /\ \A c \in DOMAIN rq.ret.rates : rq.ret.rates[c] = MockRates[c]
        /\ ~rq.sent
        /\ cb = NewCircuitBreaker(1)

\* GBP, XXX and EUR asked: XXX is left out of the map
C15_Witness ==
    /\ ~apiKey /\ rq.src.kind = "mock" /\ rq.out.called
    /\ Requested = <<"GBP", "XXX", "EUR">>
    /\ DOMAIN rq.ret.rates = {"GBP", "EUR"}
    /\ rq.ret.rates["GBP"] = 73 /\ rq.ret.rates["EUR"] = 85

Succeeded == Asked /\ rq.out.called /\ rq.out.err = ErrNone

\* the (from, to) of the returned rates, in the order returned
ReturnedPairs == [k \in 1..Len(rq.out.rates) |-> <<rq.out.rates[k].from, rq.out.rates[k].to>>]

RECURSIVE PairsFrom(_, _)
\* for each code of the list from the i-th on, in order, its pairs with
\* every different code of the list, in order
PairsFrom(codes, i) ==
    IF i > Len(codes) THEN <<>>
    ELSE SelectSeq([j \in 1..Len(codes) |-> <<codes[i], codes[j]>>],
                   LAMBDA pr : pr[1] # pr[2])
         \o PairsFrom(codes, i + 1)

\* C21: the pairs of a successful Handle are, in this order, for each
\* trimmed and upper-cased code of the query in input order, that code
\* paired with every different code of the query in input order; the
\* repository's map has no part in the order
C21_InputOrder ==
    Succeeded => ReturnedPairs = PairsFrom(Requested, 1)

\* gbp, usd, eur asked: GBP's pairs come first, USD before EUR
C21_Witness ==
    /\ Succeeded /\ Requested = <<"GBP", "USD", "EUR">>
    /\ ReturnedPairs = << <<"GBP", "USD">>, <<"GBP", "EUR">>, <<"USD", "GBP">>,
                          <<"USD", "EUR">>, <<"EUR", "GBP">>, <<"EUR", "USD">> >>

RECURSIVE Residual(_, _, _, _)
\* what is left of |b| * 10^k after taking away |a| times the quotient d
\* cut off after its first k decimal digits
Residual(d, a, b, k) ==
    IF k = 0 THEN Abs(b) - d.int * Abs(a)
    ELSE 10 * Residual(d, a, b, k - 1) - d.frac[k] * Abs(a)

\* C22 as stated: every returned rate times the repository's rate of its
\* from currency is exactly the repository's rate of its to currency
C22_ExactQuotient ==
    Succeeded =>
        \A k \in 1..Len(rq.out.rates) :
            LET e == rq.out.rates[k]
            IN  /\ Len(e.rate.frac) = DivisionPrecision
                /\ Residual(e.rate, rq.ret.rates[e.from], rq.ret.rates[e.to],
                            DivisionPrecision) = 0

\* C22: every returned rate is the quotient of the repository's rates of
\* its to and from currencies rounded to 16 decimal places, a tie away from
\* zero: it has 16 decimal digits, the sign of the quotient, and differs
\* from the quotient by at most half a unit of the 16th place
C22_QuotientTo16Places ==
    Succeeded =>
        \A k \in 1..Len(rq.out.rates) :
            LET e == rq.out.rates[k]
                a == rq.ret.rates[e.from]
                b == rq.ret.rates[e.to]
                r == Residual(e.rate, a, b, DivisionPrecision)
            IN  /\ Len(e.rate.frac) = DivisionPrecision
                /\ \A i \in 1..DivisionPrecision : e.rate.frac[i] \in 0..9
                /\ e.rate.int >= 0
                /\ e.rate.neg = ((a < 0) # (b < 0))
                /\ 0 - Abs(a) <= 2 * r
                /\ 2 * r < Abs(a)

\* EUR to USD on a repository that answers EUR 0.85 and USD 3: 3/0.85 =
\* 3.52941176470588235294..., the 17th digit is 5 and the 16th goes up
C22_Witness ==
    /\ Succeeded /\ Requested = <<"EUR", "USD">>
    /\ rq.ret.rates["EUR"] = 85 /\ rq.ret.rates["USD"] = 300
    /\ rq.out.rates[1].rate =
          [neg |-> FALSE, int |-> 3,
           frac |-> <<5, 2, 9, 4, 1, 1, 7, 6, 4, 7, 0, 5, 8, 8, 2, 4>>]

\* C30: a successful Handle returns at least one rate, no rate from a
\* currency to itself, no (from, to) twice, and exactly the ordered pairs
\* of different codes among the trimmed, upper-cased codes of the query
C30_EachPairOnce ==
    Succeeded =>
        /\ Len(rq.out.rates) > 0
        /\ \A k \in 1..Len(rq.out.rates) : rq.out.rates[k].from # rq.out.rates[k].to
        /\ \A k, m \in 1..Len(rq.out.rates) : ReturnedPairs[k] = ReturnedPairs[m] => k = m
        /\ SeqToSet(ReturnedPairs) =
              { pr \in SeqToSet(Requested) \X SeqToSet(Requested) : pr[1] # pr[2] }

\* the fetch that ends belongs to a call admitted in an earlier generation
\* of the breaker than the one it is in
StaleStep == FetchStep /\ Finished.generation # cb.generation

\* one of the breaker's timers has run out: the cool-down of Open or the
\* counting interval of Closed
TimerDue ==
    \/ cb.state = StateOpen /\ now > cb.expiry
    \/ cb.state = StateClosed /\ cb.expiry # ZeroTime /\ now > cb.expiry

\* C28: when the fetch of a call admitted in an earlier generation ends,
\* with whatever response, the breaker is left exactly as it was (state,
\* generation, counters, expiry, events) and so is the time of its last
\* state change; only if a timer has run out does the step do what any
\* read of the state would: Open becomes Half-Open, Closed starts a new
\* interval, the counters zero in both cases
C28_StaleOutcomeDropped ==
    [][(apiKey /\ StaleStep) =>
          /\ ~TimerDue => (cb' = cb /\ changedAt' = changedAt)
          /\ TimerDue =>
                /\ cb'.counts = ClearCounts
                /\ cb'.generation = cb.generation + 1
                /\ cb'.state = IF cb.state = StateOpen THEN StateHalfOpen ELSE StateClosed]_vars

\* a failure of a call admitted while Closed arrives when the breaker has
\* been Half-Open for a while with no trial sent: it stays so
C28_Witness ==
    /\ cb.state = StateHalfOpen /\ SinceChange > 0
    /\ cb.counts = ClearCounts
    /\ last.op = "Fetch" /\ last.err = MsgFailed

\* C29: a call refused by the breaker, with the unavailable or the
\* too-many-requests error, leaves the breaker exactly as it was (state,
\* generation, counters, expiry) and starts no fetch; and whenever the
\* breaker is Open its cool-down ends 30s after it entered Open
C29_RejectionLeavesBreaker ==
    /\ [](cb.state = StateOpen => cb.expiry = changedAt + 30)
    /\ [][(apiKey /\ last'.op = "GetRates") =>
              /\ last'.err \in {MsgUnavailable, MsgRateLimited}
              /\ cb' = cb
              /\ changedAt' = changedAt
              /\ inflight' = inflight]_vars

\* a call refused 15s into the cool-down, which still ends at 31
C29_Witness ==
    /\ cb.state = StateOpen /\ changedAt = 1 /\ now = 16 /\ cb.expiry = 31
    /\ last.op = "GetRates" /\ last.err = MsgUnavailable

\* C27: when fetches stop failing and calls keep arriving, the breaker is
\* eventually Closed for good; an Open breaker always becomes Half-Open and
\* a Half-Open breaker always leaves Half-Open
C27_EventuallyClosed ==
    /\ <>[](cb.state = StateClosed)
    /\ (cb.state = StateOpen) ~> (cb.state = StateHalfOpen)
    /\ (cb.state = StateHalfOpen) ~> (cb.state # StateHalfOpen)

\* the breaker has opened, cooled down, and closed on three successful
\* trials after the last failure
C27_Witness ==
    /\ cb.state = StateClosed /\ cb.generation = 4 /\ now > FailUntil + Timeout
    /\ Len(cb.emitted) = 3
    /\ last.op = "Fetch" /\ last.err = ErrNone

(***************************************************************************)
(* Vocabulary of the properties of the conversion.                         *)
(***************************************************************************)
Converted == xq.stage # "none"

\* the codes as the registry is asked for them
FromCode == AsString(ToUpper(TrimSpace(xq.query.From)))
ToCode == AsString(ToUpper(TrimSpace(xq.query.To)))

Registry == {"BEER", "FLOKI", "GATE", "USDT", "WBTC"}

\* the amount of the query as a decimal
AmountAsked == NewFromString(xq.query.Amount).d

\* a valid input: two codes of the registry and a positive amount
ValidInput ==
    /\ Converted
    /\ FromCode \in Registry /\ ToCode \in Registry
    /\ xq.query.Amount \in PositiveAmounts

\* the digits of a decimal written with m digits after the point
AtScale(d, m) == d.digits \o Zeros(m - d.scale)

Max(a, b) == IF a >= b THEN a ELSE b

Min(a, b) == IF a <= b THEN a ELSE b

\* two decimals are the same number
SameValue(a, b) ==
    LET m == Max(a.scale, b.scale)
    IN  /\ StripZeros(AtScale(a, m)) = StripZeros(AtScale(b, m))
        /\ (a.neg = b.neg \/ IsZero(a.digits))

RECURSIVE AddDigits(_, _, _, _)
\* the sum of two digit sequences of one length, from the k-th digit
\* leftwards with the carry
AddDigits(x, y, k, carry) ==
    IF k = 0 THEN (IF carry = 0 THEN <<>> ELSE <<carry>>)
    ELSE LET v == x[k] + y[k] + carry
         IN  AddDigits(x, y, k - 1, v \div 10) \o <<v % 10>>

PadTo(x, n) == Zeros(n - Len(x)) \o x

Sum(x, y) ==
    LET n == Max(Len(x), Len(y))
    IN  AddDigits(PadTo(x, n), PadTo(y, n), n, 0)

\* x <= y for the numbers two digit sequences write
LessEq(x, y) ==
    LET n == Max(Len(x), Len(y))
        a == PadTo(x, n)
        b == PadTo(y, n)
        diff == { i \in 1..n : a[i] # b[i] }
    IN  \/ diff = {}
        \/ LET i == CHOOSE i \in diff : \A j \in diff : i <= j IN a[i] < b[i]

\* two decimals that are not negative differ by at most 10^-places
Within(a, b, places) ==
    LET m == Max(Max(a.scale, b.scale), places)
        unit == <<1>> \o Zeros(m - places)
    IN  /\ LessEq(AtScale(a, m), Sum(AtScale(b, m), unit))
        /\ LessEq(AtScale(b, m), Sum(AtScale(a, m), unit))

\* C23: Handle reports the first check that fails, in this order: from, to
\* (trimmed) or amount empty: parameters required; amount not a number:
\* invalid amount; amount zero or negative: amount must be positive; from
\* not in the registry: unsupported currency from; to not in the registry:
\* unsupported currency to; and succeeds when none fails
C23_ValidationOrder ==
    Converted =>
        IF FromCode = "" \/ ToCode = "" \/ xq.query.Amount = <<>>
        THEN xq.out.err = MsgRequired
        ELSE IF xq.query.Amount \in UnparsableAmounts
        THEN xq.out.err = MsgInvalidAmount
        ELSE IF xq.query.Amount \in NonPositiveAmounts
        THEN xq.out.err = MsgNotPositive
        ELSE IF FromCode \notin Registry
        THEN xq.out.err = MsgUnsupported /\ xq.out.arg = FromCode
        ELSE IF ToCode \notin Registry
        THEN xq.out.err = MsgUnsupported /\ xq.out.arg = ToCode
        ELSE /\ xq.out.err = ErrNone
             /\ xq.out.From = FromCode /\ xq.out.To = ToCode

\* MATIC to MATIC with amount -1.0: the amount is reported, not the codes
C23_Witness ==
    /\ Converted /\ FromCode = "MATIC" /\ ToCode = "MATIC"
    /\ xq.query.Amount = <<"-", "1", ".", "0">>
    /\ xq.out.err = MsgNotPositive

\* C24: for two codes of the registry and a positive amount, the amount
\* returned is amount * rateToUSD[from] / rateToUSD[to] rounded once, half
\* away from zero, to the decimal places of to
C24_RoundedOnce ==
    ValidInput =>
        /\ xq.out.err = ErrNone
        /\ SameValue(xq.out.Amount,
                     DivRound(Mul(AmountAsked, CryptoCurrencies[FromCode].RateToUSD),
                              CryptoCurrencies[ToCode].RateToUSD,
                              CryptoCurrencies[ToCode].DecimalPlaces))

\* C25: for a code of the registry and a positive amount, converting from
\* the code to itself succeeds and returns the amount rounded to the
\* code's decimal places
C25_SameCurrency ==
    (ValidInput /\ FromCode = ToCode) =>
        /\ xq.out.err = ErrNone
        /\ SameValue(xq.out.Amount,
                     Round(AmountAsked, CryptoCurrencies[FromCode].DecimalPlaces))

\* C26: for two codes of the registry and a positive amount the conversion
\* succeeds, converting its result back succeeds, and what comes back is
\* within one unit of the coarser of the two currencies' scales of the
\* amount
C26_RoundTrip ==
    ValidInput =>
        /\ xq.out.err = ErrNone
        /\ xq.stage = "back" =>
              /\ xq.back.err = ErrNone
              /\ Within(xq.back.Amount, AmountAsked,
                        Min(CryptoCurrencies[FromCode].DecimalPlaces,
                            CryptoCurrencies[ToCode].DecimalPlaces))
====
